---- MODULE Spec2Model ----
(***************************************************************************)
(* Pipeline-parallel training of the NCE language model (main.py,          *)
(* model.py): one process per rank runs the epoch loop of __main__, each   *)
(* epoch being train -> barrier -> save -> (terminal rank: evaluate) ->    *)
(* broadcast -> promotion of the .best checkpoint.                         *)
(***************************************************************************)
EXTENDS Integers, Sequences, FiniteSets, TLC

\* ------------------------------------------------------------------ bounds
\* number of cooperating processes (model.world_size)
world_size == 2
\* args.epochs of the general configuration
MaxEpochs == 2
\* len(corpus.train): micro-batches per epoch
NumBatches == 2

Ranks == 0 .. (world_size - 1)

\* ------------------------------------------------------------------ values
\* A Python value that is None, a finite number or a NaN.
None == [tag |-> "none", v |-> 0]
NaN == [tag |-> "nan", v |-> 0]
Num(x) == [tag |-> "num", v |-> x]

\* val_ppl = torch.Tensor([1000])
Placeholder == 1000

\* perplexities the validation pass can produce
Scores == {95, 120, 130}
\* the score sequence of the best-checkpoint example
ScoreSeq == <<120, 95, 130, 95>>

\* a per-rank checkpoint part: ep = 0 means the file does not exist
NoFile == [ep |-> 0, nan |-> FALSE]

VARIABLES
    prof,          \* args.prof
    epochs,        \* args.epochs
    scoreSrc,      \* epoch -> perplexities corpus.valid can yield in that epoch
    pc,            \* rank -> position in __main__ / run_epoch / train
    epoch,         \* rank -> loop variable of __main__
    num_batch,     \* rank -> loop variable of train
    ncalls,        \* rank -> pipeline calls entered so far
    pipe,          \* the loss the terminal rank produced for the latest call
    loss,          \* rank -> value returned by model(...)
    grad,          \* rank -> TRUE when the gradients of the rank hold NaN
    tainted,       \* rank -> TRUE when the parameters of the rank hold NaN
    total_loss,    \* rank -> accumulated loss of train
    arrived,       \* rank -> dist.barrier() calls entered so far
    bcast,         \* epoch -> value sent by the source of dist.broadcast
    val_ppl,       \* rank -> local val_ppl of run_epoch
    best_val_ppl,  \* rank -> best_val_ppl of __main__
    rawFile,       \* rank -> part file at model_path
    bestFile,      \* rank -> part file at model_path + '.best'
    whole_model,   \* rank -> what the latest evaluate loaded
    val_log,       \* epoch -> the validation perplexities reported, with the rank
    promoted,      \* rank -> per finished epoch, whether the rank wrote its .best part
    interrupted,   \* ranks that received KeyboardInterrupt
    fwd,           \* one forward pass through the stage list and the full model
    pipeline_parts, \* Pipeline(model.layers): the stage list, the world size, the partitions
    log_interval,  \* args.log_interval
    trace,         \* rank -> the steps of run_epoch completed in the current epoch
    ops,           \* rank -> the statements of the batch loop executed for the current micro-batch
    call_args,     \* rank -> the arguments of the latest model(...) call
    reports        \* rank -> the progress reports logged in the current epoch

vars == <<prof, epochs, scoreSrc, pc, epoch, num_batch, ncalls, pipe, loss, grad,
          tainted, total_loss, arrived, bcast, val_ppl, best_val_ppl, rawFile,
          bestFile, whole_model, val_log, promoted, interrupted, fwd, pipeline_parts,
          log_interval, trace, ops, call_args, reports>>

\* the configuration, the forward-pass record and the partitioning: no step of
\* a rank changes them
ctl == <<prof, epochs, scoreSrc, fwd, pipeline_parts, log_interval>>

\* ------------------------------------------------------------------ helpers
\* model.rank == model.world_size - 1
is_terminal(r) == r = world_size - 1

\* tensor < tensor: false as soon as one side is NaN
Lt(a, b) == a.tag = "num" /\ b.tag = "num" /\ a.v < b.v

\* Python's `not x` for None or a one-element tensor
Falsy(x) == x.tag = "none" \/ (x.tag = "num" /\ x.v = 0)

\* total_loss = 0: the sum, and the number of losses it holds
ZeroLoss == [sum |-> 0, n |-> 0, nan |-> FALSE]

\* total_loss += loss.item()
AddLoss(t, l) == [sum |-> t.sum + l.v, n |-> t.n + 1, nan |-> t.nan \/ l.tag = "nan"]

\* nothing was passed to a pipeline call yet
NoArgs == [input |-> "unset", extra |-> <<>>]

\* Pipeline.save: the rank writes its own partition to the path, tagged by rank
save(files, r, e, t) == [files EXCEPT ![r] = [ep |-> e, nan |-> t]]

\* Pipeline.load_to_original_model: needs the part of every rank
load_ok(files) == \A q \in Ranks : files[q].ep # 0
load_to_original_model(files) == [ok |-> load_ok(files), parts |-> files]

\* ------------------------------------------------------------------ Init
InitMachine ==
    /\ pc = [r \in Ranks |-> "epoch_for"]
    /\ epoch = [r \in Ranks |-> 0]
    /\ num_batch = [r \in Ranks |-> 0]
    /\ ncalls = [r \in Ranks |-> 0]
    /\ pipe = [idx |-> 0, nan |-> FALSE]
    /\ loss = [r \in Ranks |-> None]
    /\ grad = [r \in Ranks |-> FALSE]
    /\ tainted = [r \in Ranks |-> FALSE]
    /\ total_loss = [r \in Ranks |-> ZeroLoss]
    /\ arrived = [r \in Ranks |-> 0]
    /\ bcast = [e \in 1 .. epochs |-> None]
    /\ val_ppl = [r \in Ranks |-> None]
    /\ best_val_ppl = [r \in Ranks |-> None]
    /\ rawFile = [r \in Ranks |-> NoFile]
    /\ bestFile = [r \in Ranks |-> NoFile]
    /\ whole_model = [r \in Ranks |-> load_to_original_model(rawFile)]
    /\ val_log = [e \in 1 .. epochs |-> <<>>]
    /\ promoted = [r \in Ranks |-> <<>>]
    /\ interrupted = {}
    /\ trace = [r \in Ranks |-> <<>>]
    /\ ops = [r \in Ranks |-> <<>>]
    /\ call_args = [r \in Ranks |-> NoArgs]
    /\ reports = [r \in Ranks |-> <<>>]

Init ==
    /\ prof \in BOOLEAN
    /\ epochs = MaxEpochs
    /\ scoreSrc = [e \in 1 .. epochs |-> Scores]
    /\ InitMachine
    /\ pipeline_parts = [phase |-> "off"]
    /\ log_interval = 1
    /\ fwd = [phase |-> "off"]

\* ------------------------------------------------------------------ __main__
\* for epoch in range(1, args.epochs + 1): run_epoch(...) -> train(...) header
main_for_epoch(r) ==
    /\ pc[r] = "epoch_for"
    /\ IF epoch[r] < epochs
       THEN /\ epoch' = [epoch EXCEPT ![r] = @ + 1]
            /\ num_batch' = [num_batch EXCEPT ![r] = 0]
            /\ total_loss' = [total_loss EXCEPT ![r] = ZeroLoss]
            /\ trace' = [trace EXCEPT ![r] = <<>>]
            /\ reports' = [reports EXCEPT ![r] = <<>>]
            /\ pc' = [pc EXCEPT ![r] = "batch_for"]
       ELSE /\ pc' = [pc EXCEPT ![r] = "test"]
            /\ UNCHANGED <<epoch, num_batch, total_loss, trace, reports>>
    /\ UNCHANGED <<ctl, ops, call_args, ncalls, pipe, loss, grad,
                   tainted, arrived, bcast, val_ppl, best_val_ppl, rawFile, bestFile,
                   whole_model, val_log, promoted, interrupted>>

\* ------------------------------------------------------------------ train
\* every rank passes the data
real_input_always(rank) == "data"

\* real_input = None; if model.rank == 0: real_input = data
real_input(rank) == IF rank = 0 THEN "data" ELSE "None"

\* real_extra_output = tuple();
\* if model.rank == model.world_size - 1: real_extra_output = (target, length)
real_extra_output(rank, ws) == IF rank = ws - 1 THEN <<"target", "length">> ELSE <<>>

\* for num_batch, data_batch in enumerate(pbar); real_input, real_extra_output
train_for_batch(r) ==
    /\ pc[r] = "batch_for"
    /\ pc' = [pc EXCEPT ![r] = IF num_batch[r] < NumBatches THEN "call" ELSE "barrier"]
    /\ IF num_batch[r] < NumBatches
       THEN /\ ops' = [ops EXCEPT ![r] = <<>>]
            /\ call_args' = [call_args EXCEPT ![r] =
                                [input |-> real_input(r), extra |-> real_extra_output(r, world_size)]]
            /\ UNCHANGED trace
       ELSE /\ trace' = [trace EXCEPT ![r] = Append(@, "train")]
            /\ UNCHANGED <<ops, call_args>>
    /\ UNCHANGED <<ctl, reports, epoch, num_batch, ncalls, pipe, loss, grad, tainted,
                   total_loss, arrived, bcast, val_ppl, best_val_ppl, rawFile,
                   bestFile, whole_model, val_log, promoted, interrupted>>

\* loss = model(real_input, *real_extra_output): the rank enters the pipeline
pipeline_enter(r) ==
    /\ pc[r] = "call"
    /\ ncalls' = [ncalls EXCEPT ![r] = @ + 1]
    /\ pc' = [pc EXCEPT ![r] = "incall"]
    /\ UNCHANGED <<ctl, trace, ops, call_args, reports, epoch, num_batch, pipe, loss,
                   grad, tainted, total_loss, arrived, bcast, val_ppl, best_val_ppl,
                   rawFile, bestFile, whole_model, val_log, promoted, interrupted>>

\* the synchronous pipeline: the terminal rank computes the loss of call k once
\* every rank has entered call k
pipeline_ready(r) == \A q \in Ranks : ncalls[q] >= ncalls[r]

\* the losses a micro-batch can give: NaN parameters give a NaN loss
pipeline_losses == IF \E q \in Ranks : tainted[q] THEN {NaN} ELSE {Num(1), NaN}

\* the pipeline call returns on the terminal rank, with the loss
pipeline_return_loss(r) ==
    /\ pc[r] = "incall"
    /\ is_terminal(r)
    /\ pipeline_ready(r)
    /\ \E l \in pipeline_losses :
          /\ loss' = [loss EXCEPT ![r] = l]
          /\ grad' = [grad EXCEPT ![r] = (l = NaN)]
          /\ pipe' = [idx |-> ncalls[r], nan |-> (l = NaN)]
    /\ pc' = [pc EXCEPT ![r] = "clip"]
    /\ ops' = [ops EXCEPT ![r] = Append(@, "call")]
    /\ UNCHANGED <<ctl, trace, call_args, reports, epoch, num_batch, ncalls, tainted,
                   total_loss, arrived, bcast, val_ppl, best_val_ppl, rawFile,
                   bestFile, whole_model, val_log, promoted, interrupted>>

\* the pipeline call returns on another rank, with gradients and no loss
pipeline_return_none(r) ==
    /\ pc[r] = "incall"
    /\ ~is_terminal(r)
    /\ pipe.idx = ncalls[r]
    /\ loss' = [loss EXCEPT ![r] = None]
    /\ grad' = [grad EXCEPT ![r] = pipe.nan]
    /\ pc' = [pc EXCEPT ![r] = "clip"]
    /\ ops' = [ops EXCEPT ![r] = Append(@, "call")]
    /\ UNCHANGED <<ctl, trace, call_args, reports, epoch, num_batch, ncalls, pipe,
                   tainted, total_loss, arrived, bcast, val_ppl, best_val_ppl, rawFile,
                   bestFile, whole_model, val_log, promoted, interrupted>>

\* a batch loop that clips and then skips optimizer.step()
train_clip_skip_step(r) ==
    /\ pc[r] = "clip"
    /\ pc' = [pc EXCEPT ![r] = "zero"]
    /\ ops' = [ops EXCEPT ![r] = Append(@, "clip")]
    /\ UNCHANGED <<ctl, trace, call_args, reports, epoch, num_batch, ncalls, pipe,
                   loss, grad, tainted, total_loss, arrived, bcast, val_ppl,
                   best_val_ppl, rawFile, bestFile, whole_model, val_log, promoted,
                   interrupted>>

\* torch.nn.utils.clip_grad_norm_(model.parameters(), args.clip)
train_clip(r) ==
    /\ pc[r] = "clip"
    /\ pc' = [pc EXCEPT ![r] = "step"]
    /\ ops' = [ops EXCEPT ![r] = Append(@, "clip")]
    /\ UNCHANGED <<ctl, trace, call_args, reports, epoch, num_batch, ncalls, pipe,
                   loss, grad, tainted, total_loss, arrived, bcast, val_ppl,
                   best_val_ppl, rawFile, bestFile, whole_model, val_log, promoted,
                   interrupted>>

\* optimizer.step(): NaN gradients make the parameters NaN
train_step(r) ==
    /\ pc[r] = "step"
    /\ tainted' = [tainted EXCEPT ![r] = @ \/ grad[r]]
    /\ pc' = [pc EXCEPT ![r] = "zero"]
    /\ ops' = [ops EXCEPT ![r] = Append(@, "step")]
    /\ UNCHANGED <<ctl, trace, call_args, reports, epoch, num_batch, ncalls, pipe,
                   loss, grad, total_loss, arrived, bcast, val_ppl, best_val_ppl,
                   rawFile, bestFile, whole_model, val_log, promoted, interrupted>>

\* optimizer.zero_grad()
train_zero_grad(r) ==
    /\ pc[r] = "zero"
    /\ grad' = [grad EXCEPT ![r] = FALSE]
    /\ pc' = [pc EXCEPT ![r] = "accum"]
    /\ ops' = [ops EXCEPT ![r] = Append(@, "zero_grad")]
    /\ UNCHANGED <<ctl, trace, call_args, reports, epoch, num_batch, ncalls, pipe,
                   loss, tainted, total_loss, arrived, bcast, val_ppl, best_val_ppl,
                   rawFile, bestFile, whole_model, val_log, promoted, interrupted>>

\* a report at every batch index, the first included
should_log_at_zero(n, interval) == n % interval = 0

\* if num_batch % args.log_interval == 0 and num_batch > 0
should_log(n, interval) == n % interval = 0 /\ n > 0

\* cur_loss = total_loss / args.log_interval; logger.debug(...): the report
\* holds the total, the divisor and the number of losses in the total
report(n, t, interval) ==
    [batch |-> n, total |-> t.sum, div |-> interval, n |-> t.n, nan |-> t.nan]

\* if model.rank == model.world_size - 1: total_loss += loss.item();
\* if args.prof: break; if ...: log the progress, total_loss = 0;
\* then the next iteration of the batch loop
train_accumulate(r) ==
    /\ pc[r] = "accum"
    /\ IF is_terminal(r)
       THEN /\ ops' = [ops EXCEPT ![r] = Append(@, "read_loss")]
            /\ IF prof
               THEN /\ total_loss' = [total_loss EXCEPT ![r] = AddLoss(@, loss[r])]
                    /\ trace' = [trace EXCEPT ![r] = Append(@, "train")]
                    /\ pc' = [pc EXCEPT ![r] = "barrier"]
                    /\ UNCHANGED <<num_batch, reports>>
               ELSE /\ IF should_log(num_batch[r], log_interval)
                       THEN /\ reports' = [reports EXCEPT ![r] =
                                  Append(@, report(num_batch[r],
                                                   AddLoss(total_loss[r], loss[r]),
                                                   log_interval))]
                            /\ total_loss' = [total_loss EXCEPT ![r] = ZeroLoss]
                       ELSE /\ total_loss' = [total_loss EXCEPT ![r] =
                                                 AddLoss(@, loss[r])]
                            /\ UNCHANGED reports
                    /\ pc' = [pc EXCEPT ![r] = "batch_for"]
                    /\ num_batch' = [num_batch EXCEPT ![r] = @ + 1]
                    /\ UNCHANGED trace
       ELSE /\ pc' = [pc EXCEPT ![r] = "batch_for"]
            /\ num_batch' = [num_batch EXCEPT ![r] = @ + 1]
            /\ UNCHANGED <<total_loss, trace, ops, reports>>
    /\ UNCHANGED <<ctl, call_args, epoch, ncalls, pipe, loss, grad, tainted, arrived,
                   bcast, val_ppl, best_val_ppl, rawFile, bestFile, whole_model,
                   val_log, promoted, interrupted>>

\* ------------------------------------------------------------------ run_epoch
\* dist.barrier(): the rank reaches the barrier
barrier_enter(r) ==
    /\ pc[r] = "barrier"
    /\ arrived' = [arrived EXCEPT ![r] = @ + 1]
    /\ pc' = [pc EXCEPT ![r] = "inbarrier"]
    /\ UNCHANGED <<ctl, trace, ops, call_args, reports, epoch, num_batch, ncalls, pipe,
                   loss, grad, tainted, total_loss, bcast, val_ppl, best_val_ppl,
                   rawFile, bestFile, whole_model, val_log, promoted, interrupted>>

\* a barrier that never waits
barrier_open_always(r) == TRUE

\* the collective barrier releases a rank once every rank has made the same call
barrier_open(r) == \A q \in Ranks : arrived[q] >= arrived[r]

\* dist.barrier() returns
barrier_leave(r) ==
    /\ pc[r] = "inbarrier"
    /\ barrier_open(r)
    /\ pc' = [pc EXCEPT ![r] = "save"]
    /\ trace' = [trace EXCEPT ![r] = Append(@, "barrier")]
    /\ UNCHANGED <<ctl, ops, call_args, reports, epoch, num_batch, ncalls, pipe, loss,
                   grad, tainted, total_loss, arrived, bcast, val_ppl, best_val_ppl,
                   rawFile, bestFile, whole_model, val_log, promoted, interrupted>>

\* validation without the rank guard
evaluates_any(r) == TRUE

\* if model.rank == model.world_size - 1: the rank that validates
evaluates(r) == is_terminal(r)

\* model.save(model_path); val_ppl = torch.Tensor([1000])
epoch_save(r) ==
    /\ pc[r] = "save"
    /\ rawFile' = save(rawFile, r, epoch[r], tainted[r])
    /\ val_ppl' = [val_ppl EXCEPT ![r] = Num(Placeholder)]
    /\ pc' = [pc EXCEPT ![r] = IF evaluates(r) THEN "eval" ELSE "bcast"]
    /\ trace' = [trace EXCEPT ![r] = Append(@, "save")]
    /\ UNCHANGED <<ctl, ops, call_args, reports, epoch, num_batch, ncalls, pipe, loss,
                   grad, tainted, total_loss, arrived, bcast, best_val_ppl, bestFile,
                   whole_model, val_log, promoted, interrupted>>

\* the perplexities evaluate can return for a loaded model in epoch e
eval_scores(w, e) ==
    IF \E q \in Ranks : w.parts[q].nan THEN {NaN} ELSE {Num(s) : s \in scoreSrc[e]}

\* val_ppl[0] = evaluate(model, corpus.valid); logger.warning(... valid ppl ...)
epoch_evaluate(r) ==
    /\ pc[r] = "eval"
    /\ LET w == load_to_original_model(rawFile) IN
          /\ whole_model' = [whole_model EXCEPT ![r] = w]
          /\ IF w.ok
             THEN \E s \in eval_scores(w, epoch[r]) :
                     /\ val_ppl' = [val_ppl EXCEPT ![r] = s]
                     /\ val_log' = [val_log EXCEPT ![epoch[r]] =
                                        Append(@, [rank |-> r, ppl |-> s])]
                     /\ pc' = [pc EXCEPT ![r] = "bcast"]
                     /\ trace' = [trace EXCEPT ![r] = Append(@, "evaluate")]
             ELSE /\ pc' = [pc EXCEPT ![r] = "failed"]
                  /\ UNCHANGED <<val_ppl, val_log, trace>>
    /\ UNCHANGED <<ctl, ops, call_args, reports, epoch, num_batch, ncalls, pipe,
                   loss, grad, tainted, total_loss, arrived, bcast, best_val_ppl,
                   rawFile, bestFile, promoted, interrupted>>

\* a broadcast that leaves the receiver's tensor as it was
broadcast_recv_keep(own, sent) == own

\* what a receiving rank holds after dist.broadcast(val_ppl, src)
broadcast_recv(own, sent) == sent

\* dist.broadcast(val_ppl, src=model.world_size - 1) on the source rank
broadcast_send(r) ==
    /\ pc[r] = "bcast"
    /\ is_terminal(r)
    /\ bcast' = [bcast EXCEPT ![epoch[r]] = val_ppl[r]]
    /\ pc' = [pc EXCEPT ![r] = "promote"]
    /\ trace' = [trace EXCEPT ![r] = Append(@, "broadcast")]
    /\ UNCHANGED <<ctl, ops, call_args, reports, epoch, num_batch, ncalls, pipe, loss,
                   grad, tainted, total_loss, arrived, val_ppl, best_val_ppl, rawFile,
                   bestFile, whole_model, val_log, promoted, interrupted>>

\* dist.broadcast(val_ppl, src=model.world_size - 1) on a receiving rank
broadcast_receive(r) ==
    /\ pc[r] = "bcast"
    /\ ~is_terminal(r)
    /\ bcast[epoch[r]] # None
    /\ val_ppl' = [val_ppl EXCEPT ![r] = broadcast_recv(@, bcast[epoch[r]])]
    /\ pc' = [pc EXCEPT ![r] = "promote"]
    /\ trace' = [trace EXCEPT ![r] = Append(@, "broadcast")]
    /\ UNCHANGED <<ctl, ops, call_args, reports, epoch, num_batch, ncalls, pipe, loss,
                   grad, tainted, total_loss, arrived, bcast, best_val_ppl, rawFile,
                   bestFile, whole_model, val_log, promoted, interrupted>>

\* a promotion that also fires on an equal score
is_best_or_equal(val, best) == Falsy(best) \/ ~Lt(best, val)

\* if not best_val_ppl or val_ppl < best_val_ppl
is_best(val, best) == Falsy(best) \/ Lt(val, best)

\* model.save(model_path + '.best'); best_val_ppl = val_ppl; return;
\* back in __main__: if args.prof: break
epoch_promote(r) ==
    /\ pc[r] = "promote"
    /\ IF is_best(val_ppl[r], best_val_ppl[r])
       THEN /\ bestFile' = save(bestFile, r, epoch[r], tainted[r])
            /\ best_val_ppl' = [best_val_ppl EXCEPT ![r] = val_ppl[r]]
            /\ promoted' = [promoted EXCEPT ![r] = Append(@, TRUE)]
            /\ trace' = [trace EXCEPT ![r] = Append(@, "checkpoint")]
       ELSE /\ promoted' = [promoted EXCEPT ![r] = Append(@, FALSE)]
            /\ UNCHANGED <<bestFile, best_val_ppl, trace>>
    /\ pc' = [pc EXCEPT ![r] = IF prof THEN "test" ELSE "epoch_for"]
    /\ UNCHANGED <<ctl, ops, call_args, reports, epoch, num_batch, ncalls, pipe,
                   loss, grad, tainted, total_loss, arrived, bcast, val_ppl, rawFile,
                   whole_model, val_log, interrupted>>

\* the positions inside the try block of __main__
InTry == {"epoch_for", "batch_for", "call", "incall", "clip", "step", "zero", "accum",
          "barrier", "inbarrier", "save", "eval", "bcast", "promote"}

\* except KeyboardInterrupt: logger.warning('Exiting from training early')
keyboard_interrupt(r) ==
    /\ pc[r] \in InTry
    /\ interrupted' = interrupted \cup {r}
    /\ pc' = [pc EXCEPT ![r] = "test"]
    /\ trace' = [trace EXCEPT ![r] = <<>>]
    /\ ops' = [ops EXCEPT ![r] = <<>>]
    /\ UNCHANGED <<ctl, call_args, reports, epoch, num_batch, ncalls, pipe, loss, grad,
                   tainted, total_loss, arrived, bcast, val_ppl, best_val_ppl, rawFile,
                   bestFile, whole_model, val_log, promoted>>

\* test_ppl = evaluate(model, corpus.test); the end of the program
main_test(r) ==
    /\ pc[r] = "test"
    /\ LET w == load_to_original_model(rawFile) IN
          /\ whole_model' = [whole_model EXCEPT ![r] = w]
          /\ pc' = [pc EXCEPT ![r] = IF w.ok THEN "done" ELSE "failed"]
    /\ UNCHANGED <<ctl, trace, ops, call_args, reports, epoch, num_batch, ncalls, pipe,
                   loss, grad, tainted, total_loss, arrived, bcast, val_ppl,
                   best_val_ppl, rawFile, bestFile, val_log, promoted, interrupted>>

\* one step of one rank, without operator cancellation
rank_step(r) ==
    \/ main_for_epoch(r)
    \/ train_for_batch(r)
    \/ pipeline_enter(r)
    \/ pipeline_return_loss(r)
    \/ pipeline_return_none(r)
    \/ train_clip(r)
    \/ train_step(r)
    \/ train_zero_grad(r)
    \/ train_accumulate(r)
    \/ barrier_enter(r)
    \/ barrier_leave(r)
    \/ epoch_save(r)
    \/ epoch_evaluate(r)
    \/ broadcast_send(r)
    \/ broadcast_receive(r)
    \/ epoch_promote(r)
    \/ main_test(r)

Next == \E r \in Ranks : rank_step(r) \/ keyboard_interrupt(r)

Spec == Init /\ [][Next]_vars

\* runs the operator does not cancel, over every score sequence of four epochs
InitBest ==
    /\ prof \in BOOLEAN
    /\ epochs = Len(ScoreSeq)
    /\ scoreSrc = [e \in 1 .. epochs |-> Scores]
    /\ InitMachine
    /\ pipeline_parts = [phase |-> "off"]
    /\ log_interval = 1
    /\ fwd = [phase |-> "off"]

NextRun == \E r \in Ranks : rank_step(r)

\* runs the operator does not cancel, in the general configuration
SpecRun == Init /\ [][NextRun]_vars

SpecBest == InitBest /\ [][NextRun]_vars

\* the values of args.log_interval that are enumerated
MaxLogInterval == 2

\* runs the operator does not cancel, over the log intervals
InitTrain ==
    /\ prof \in BOOLEAN
    /\ epochs = MaxEpochs
    /\ scoreSrc = [e \in 1 .. epochs |-> Scores]
    /\ InitMachine
    /\ pipeline_parts = [phase |-> "off"]
    /\ log_interval \in 1 .. MaxLogInterval
    /\ fwd = [phase |-> "off"]

SpecTrain == InitTrain /\ [][NextRun]_vars

\* ------------------------------------------------------------------ model.py
\* one batch: BatchSize rows of MaxLen positions (input.size(1))
BatchSize == 2
MaxLen == 2
\* positions one dropout layer may zero in the batches that are enumerated
MaxDrop == 1

Rows == 1 .. BatchSize
Times == 1 .. MaxLen
Tokens == {0, 1}
Positions == Rows \X Times
DropMasks == {m \in SUBSET Positions : Cardinality(m) <= MaxDrop}

RECURSIVE SumTo(_, _)
SumTo(row, t) == IF t = 0 THEN 0 ELSE row[t] + SumTo(row, t - 1)

RECURSIVE SumSeq(_)
SumSeq(q) == IF q = <<>> THEN 0 ELSE Head(q) + SumSeq(Tail(q))

\* nn.Embedding: one value per token
encoder(x) == [i \in DOMAIN x |-> [t \in DOMAIN x[i] |-> x[i][t] + 1]]

\* nn.Dropout(0.5): the identity in eval mode; in training mode the positions
\* of the mask become 0 and the others are scaled by 1 / (1 - 0.5)
drop(x, m, training) ==
    [i \in DOMAIN x |-> [t \in DOMAIN x[i] |->
        IF training THEN (IF <<i, t>> \in m THEN 0 ELSE 2 * x[i][t]) ELSE x[i][t]]]

\* nn.LSTM(batch_first=True): position t depends on the positions up to t
rnn(x) == [i \in DOMAIN x |-> [t \in DOMAIN x[i] |-> SumTo(x[i], t)]]

\* nn.Linear(nhid, ninp)
proj(x) == [i \in DOMAIN x |-> [t \in DOMAIN x[i] |-> 3 * x[i][t] + 1]]

\* criterion(target, rnn_output) with reduction='none': one loss per position
criterion(target, out) ==
    [i \in DOMAIN out |-> [t \in DOMAIN out[i] |->
        (out[i][t] - target[i][t]) * (out[i][t] - target[i][t])]]

\* utils.get_mask: mask[i, t] = t < length[i], positions counted from 0
get_mask(length, max_len) ==
    [i \in DOMAIN length |-> [t \in 1 .. max_len |-> t - 1 < length[i]]]

\* torch.masked_select: the selected entries, row by row
RECURSIVE select_row(_, _, _)
select_row(row, mrow, t) ==
    IF t > Len(row) THEN <<>>
    ELSE (IF mrow[t] THEN <<row[t]>> ELSE <<>>) \o select_row(row, mrow, t + 1)

RECURSIVE select_rows(_, _, _)
select_rows(x, mask, i) ==
    IF i > Len(x) THEN <<>>
    ELSE select_row(x[i], mask[i], 1) \o select_rows(x, mask, i + 1)

masked_select(x, mask) == select_rows(x, mask, 1)

\* Tensor.mean(): sum over count, NaN for an empty selection
mean(q) ==
    IF Len(q) = 0 THEN [tag |-> "nan", sum |-> 0, n |-> 0]
    ELSE [tag |-> "num", sum |-> SumSeq(q), n |-> Len(q)]

\* Layer1.forward
Layer1_forward(input, m, training) == drop(encoder(input), m, training)

\* Layer3.forward
Layer3_forward(inp) == rnn(inp)

\* input.size(1)
size1(x) == Len(x[1])

\* a loss head that averages over every position, padding included
Layer2_forward_unmasked(input, target, length) ==
    mean(masked_select(criterion(target, input),
                       get_mask([i \in DOMAIN length |-> size1(input)], size1(input))))

\* Layer2.forward
Layer2_forward(input, target, length) ==
    mean(masked_select(criterion(target, input), get_mask(length, size1(input))))

\* RNNModel._rnn
RNNModel_rnn(input, m1, m2, training) ==
    drop(proj(rnn(drop(encoder(input), m1, training))), m2, training)

\* RNNModel.forward
RNNModel_forward(input, target, length, m1, m2, training) ==
    mean(masked_select(criterion(target, RNNModel_rnn(input, m1, m2, training)),
                       get_mask(length, size1(input))))

\* RNNModel.layers, the ordered stage list handed to Pipeline
layers == <<"Layer1", "Layer3", "proj", "Layer2">>

\* the stage list every rank of a one-rank pipeline owns
partition_of_one == layers

InitFwd ==
    /\ prof = FALSE
    /\ epochs = MaxEpochs
    /\ scoreSrc = [e \in 1 .. epochs |-> Scores]
    /\ InitMachine
    /\ pipeline_parts = [phase |-> "off"]
    /\ log_interval = 1
    /\ \E training \in BOOLEAN, input \in [Rows -> [Times -> Tokens]],
          target \in [Rows -> [Times -> Tokens]], length \in [Rows -> 0 .. MaxLen] :
          fwd = [phase |-> "pipe", training |-> training, input |-> input,
                 target |-> target, length |-> length, stage |-> 1,
                 drop1 |-> {}, act |-> input,
                 pipe_loss |-> mean(<<>>), full_loss |-> mean(<<>>)]

machine == <<prof, epochs, scoreSrc, pc, epoch, num_batch, ncalls, pipe, loss, grad,
             tainted, total_loss, arrived, bcast, val_ppl, best_val_ppl, rawFile,
             bestFile, whole_model, val_log, promoted, interrupted, log_interval,
             trace, ops, call_args, reports>>

\* Pipeline with world_size 1: the rank applies its stages one after the other,
\* the last with the extra outputs (target, length)
pipeline_stage ==
    /\ fwd.phase = "pipe"
    /\ LET name == partition_of_one[fwd.stage] IN
          \/ /\ name = "Layer1"
             /\ \E m \in (IF fwd.training THEN DropMasks ELSE {{}}) :
                   fwd' = [fwd EXCEPT !.act = Layer1_forward(fwd.input, m, fwd.training),
                                      !.drop1 = m, !.stage = @ + 1]
          \/ /\ name = "Layer3"
             /\ fwd' = [fwd EXCEPT !.act = Layer3_forward(@), !.stage = @ + 1]
          \/ /\ name = "proj"
             /\ fwd' = [fwd EXCEPT !.act = proj(@), !.stage = @ + 1]
          \/ /\ name = "Layer2"
             /\ fwd' = [fwd EXCEPT
                          !.pipe_loss = Layer2_forward(fwd.act, fwd.target, fwd.length),
                          !.phase = "full"]
    /\ UNCHANGED <<machine, pipeline_parts>>

\* whole_model(data, target, length) on the same batch, with the same mask in
\* the first dropout
full_forward ==
    /\ fwd.phase = "full"
    /\ \E m2 \in (IF fwd.training THEN DropMasks ELSE {{}}) :
          fwd' = [fwd EXCEPT
                    !.full_loss = RNNModel_forward(fwd.input, fwd.target, fwd.length,
                                                   fwd.drop1, m2, fwd.training),
                    !.phase = "done"]
    /\ UNCHANGED <<machine, pipeline_parts>>

NextFwd == pipeline_stage \/ full_forward

SpecFwd == InitFwd /\ [][NextFwd]_vars

\* ------------------------------------------------------------------ partitioning
\* stage lists up to this length are partitioned, over up to MaxWorld ranks
MaxStages == 4
MaxWorld == 5

StageLists == UNION {[1 .. n -> {layers[k] : k \in DOMAIN layers}] : n \in 1 .. MaxStages}

\* the first and the last stage of rank r when n stages are split over w ranks
first_stage(n, w, r) == ((r * n) \div w) + 1
last_stage(n, w, r) == ((r + 1) * n) \div w

\* a split in chunks of ceil(n / w) stages, which leaves late ranks empty
partition_by_chunks(stages, w) ==
    LET n == Len(stages)
        size == (n + w - 1) \div w
        hi(r) == IF (r + 1) * size < n THEN (r + 1) * size ELSE n
    IN [ok |-> w <= n,
        parts |-> [r \in 0 .. (w - 1) |-> SubSeq(stages, r * size + 1, hi(r))]]

\* StagePartitioner: W contiguous partitions in stage order, one per rank;
\* PartitionMismatchError when there are more ranks than stages
partition(stages, w) ==
    LET n == Len(stages) IN
    [ok |-> w <= n,
     parts |-> IF w <= n
               THEN [r \in 0 .. (w - 1) |->
                        SubSeq(stages, first_stage(n, w, r), last_stage(n, w, r))]
               ELSE [r \in 0 .. (w - 1) |-> <<>>]]

InitPart ==
    /\ prof = FALSE
    /\ epochs = MaxEpochs
    /\ scoreSrc = [e \in 1 .. epochs |-> Scores]
    /\ InitMachine
    /\ log_interval = 1
    /\ fwd = [phase |-> "off"]
    /\ \E stages \in StageLists, w \in 1 .. MaxWorld :
          pipeline_parts = [phase |-> "new", stages |-> stages, world |-> w,
                            result |-> partition(<<>>, 1)]

\* model = Pipeline(model.layers) in build_model
build_pipeline ==
    /\ pipeline_parts.phase = "new"
    /\ pipeline_parts' = [pipeline_parts EXCEPT
                            !.result = partition(pipeline_parts.stages, pipeline_parts.world),
                            !.phase = "built"]
    /\ UNCHANGED <<machine, fwd>>

NextPart == build_pipeline

SpecPart == InitPart /\ [][NextPart]_vars

\* ------------------------------------------------------------------ loss head
\* the batch of the masking example: three rows of five positions
ExampleLength == <<3, 0, 5>>
ExampleTimes == 1 .. 5

\* a tensor that holds v at every position
Const(rows, times, v) == [i \in rows |-> [t \in times |-> v]]

\* the batches handed to the loss head: every activation over a batch of
\* BatchSize rows, and the rows of the masking example
LossBatches ==
    {[act |-> a, target |-> Const(Rows, Times, v), length |-> l] :
        a \in [Rows -> [Times -> Tokens]], v \in Tokens, l \in [Rows -> 0 .. MaxLen]}
    \cup
    {[act |-> [i \in DOMAIN ExampleLength |-> [t \in ExampleTimes |-> (i * t + k) % 3]],
      target |-> Const(DOMAIN ExampleLength, ExampleTimes, v),
      length |-> ExampleLength] : k \in 0 .. 2, v \in Tokens}

InitLoss ==
    /\ prof = FALSE
    /\ epochs = MaxEpochs
    /\ scoreSrc = [e \in 1 .. epochs |-> Scores]
    /\ InitMachine
    /\ pipeline_parts = [phase |-> "off"]
    /\ log_interval = 1
    /\ \E b \in LossBatches :
          fwd = [phase |-> "loss", act |-> b.act, target |-> b.target,
                 length |-> b.length, pipe_loss |-> mean(<<>>)]

\* the terminal rank's last stage: loss = Layer2(activation, target, length)
loss_stage ==
    /\ fwd.phase = "loss"
    /\ fwd' = [fwd EXCEPT !.pipe_loss = Layer2_forward(fwd.act, fwd.target, fwd.length),
                          !.phase = "loss_done"]
    /\ UNCHANGED <<machine, pipeline_parts>>

NextLoss == loss_stage

SpecLoss == InitLoss /\ [][NextLoss]_vars

\* ------------------------------------------------------------------ claims
\* the epochs whose promotion step rank r has passed
Passed(r) == 1 .. Len(promoted[r])

\* the best score on record after epoch e, folded over the broadcast scores
RECURSIVE BestAfter(_)
BestAfter(e) ==
    IF e <= 1 THEN bcast[1]
    ELSE IF Lt(bcast[e], BestAfter(e - 1)) THEN bcast[e] ELSE BestAfter(e - 1)

ShouldPromote(e) == e = 1 \/ Lt(bcast[e], BestAfter(e - 1))

FollowsScoreSeq(r) == \A e \in Passed(r) : bcast[e] = Num(ScoreSeq[e])

\* C1: a rank writes its .best part in epoch e if and only if e is the first
\* epoch or the broadcast score of e is strictly lower than the best on record;
\* over the scores 120, 95, 130, 95 it is written in epochs 1 and 2 only.
C1_PromotionOnStrictImprovement ==
    \A r \in Ranks :
       /\ \A e \in Passed(r) : promoted[r][e] <=> ShouldPromote(e)
       /\ FollowsScoreSeq(r) => \A e \in Passed(r) : promoted[r][e] <=> e \in {1, 2}
       /\ \A e \in Passed(r) :
             (promoted[r][e] /\ \A k \in Passed(r) : k > e => ~promoted[r][k])
                => bestFile[r].ep = e

C1_Witness ==
    \E r \in Ranks :
       /\ Len(promoted[r]) = Len(ScoreSeq)
       /\ FollowsScoreSeq(r)
       /\ promoted[r] = <<TRUE, TRUE, FALSE, FALSE>>
       /\ bestFile[r].ep = 2

\* C2: the model the terminal rank validates in epoch e is loaded from the
\* parts that every rank saved in epoch e: no part is missing or older.
C2_EvaluateReadsLatestParts ==
    \A r \in Ranks :
       (is_terminal(r) /\ r \notin interrupted)
          => /\ pc[r] # "failed"
             /\ pc[r] = "bcast" => \A q \in Ranks : whole_model[r].parts[q].ep = epoch[r]

\* C3: after the broadcast every rank holds the score that the terminal rank
\* computed in that epoch.
C3_BroadcastScoreEqual ==
    \A r \in Ranks :
       pc[r] = "promote"
          => /\ Len(val_log[epoch[r]]) >= 1
             /\ is_terminal(val_log[epoch[r]][1].rank)
             /\ val_ppl[r] = val_log[epoch[r]][1].ppl

C3_Witness ==
    \E r \in Ranks :
       /\ ~is_terminal(r)
       /\ pc[r] = "promote"
       /\ epoch[r] = 2
       /\ val_ppl[r] = Num(95)
       /\ val_log[1][1].ppl = Num(120)

\* C4: all ranks take the same promotion decision in every epoch, and once
\* they have passed the same promotion steps they record the same best score
\* and hold .best parts of one single epoch.
C4_SamePromotionDecision ==
    \A r, q \in Ranks :
       /\ \A e \in Passed(r) \cap Passed(q) : promoted[r][e] = promoted[q][e]
       /\ Len(promoted[r]) = Len(promoted[q])
             => /\ best_val_ppl[r] = best_val_ppl[q]
                /\ bestFile[r].ep = bestFile[q].ep

C4_Witness ==
    /\ \A r \in Ranks : promoted[r] = <<TRUE, TRUE>>
    /\ \A r \in Ranks : bestFile[r].ep = 2 /\ best_val_ppl[r] = Num(95)

\* the steps of run_epoch behind the barrier
PostBarrier == {"save", "eval", "bcast", "promote"}

\* C5: a rank is behind the barrier of epoch e, or in a later epoch, only when
\* every rank has ended the training loop of epoch e and reached that barrier.
C5_BarrierBeforePostTraining ==
    \A r, q \in Ranks :
       /\ pc[r] \in PostBarrier => arrived[q] >= epoch[r]
       /\ arrived[q] >= epoch[r] - 1

C5_Witness ==
    \E r, q \in Ranks :
       /\ pc[r] = "save"
       /\ epoch[r] = 2
       /\ pc[q] = "inbarrier"
       /\ arrived[q] = 2

\* the parts of a fileset are all absent or all written in one epoch
OneEpoch(files) == \A r, q \in Ranks : files[r].ep = files[q].ep

\* C6: whenever the program has ended after an interrupt, the raw and the
\* .best filesets are each a complete set of parts of one single epoch.
C6_InterruptKeepsCheckpoints ==
    (interrupted # {} /\ \A r \in Ranks : pc[r] = "done")
       => OneEpoch(rawFile) /\ OneEpoch(bestFile)

\* C7: after a NaN loss the rank does not clip, step or accumulate, and no
\* checkpoint part is written from NaN parameters.
C7_NaNLossAborts ==
    \A r \in Ranks :
       /\ loss[r] = NaN => pc[r] \notin {"step", "zero", "accum"}
       /\ ~total_loss[r].nan
       /\ ~rawFile[r].nan
       /\ ~bestFile[r].nan

\* two means agree: both NaN, or the same quotient
LossAgree(a, b) == a.tag = b.tag /\ a.sum * b.n = b.sum * a.n

\* C8: with one rank, the loss of the stage list Layer1, Layer3, proj, Layer2
\* on a batch equals the loss of RNNModel.forward on the same batch.
C8_PipelineLossEqualsFull ==
    fwd.phase = "done" => LossAgree(fwd.pipe_loss, fwd.full_loss)

\* the valid positions of a batch
Valid(length, times) == {p \in (DOMAIN length) \X times : p[2] <= length[p[1]]}

RECURSIVE SumAt(_, _)
SumAt(x, S) ==
    IF S = {} THEN 0
    ELSE LET p == CHOOSE p \in S : TRUE IN x[p[1]][p[2]] + SumAt(x, S \ {p})

\* x with every padding position set to v
Repad(x, length, v) ==
    [i \in DOMAIN x |-> [t \in DOMAIN x[i] |-> IF t <= length[i] THEN x[i][t] ELSE v]]

\* C11: the loss is the mean over exactly the positions t < length[i]: their
\* number is the sum of the lengths (8 for the lengths 3, 0, 5 over 5 columns),
\* their sum is that of the per-position losses there, and the values at the
\* padding positions do not change it.
C11_MaskedMean ==
    fwd.phase = "loss_done" =>
       LET per == criterion(fwd.target, fwd.act)
           valid == Valid(fwd.length, DOMAIN fwd.act[1])
       IN /\ fwd.pipe_loss.n = SumSeq(fwd.length)
          /\ fwd.pipe_loss.n = Cardinality(valid)
          /\ fwd.pipe_loss.sum = SumAt(per, valid)
          /\ fwd.length = ExampleLength => fwd.pipe_loss.n = 8
          /\ \A v \in {0, 5} :
                Layer2_forward(Repad(fwd.act, fwd.length, v), fwd.target, fwd.length)
                   = fwd.pipe_loss

C11_Witness ==
    /\ fwd.phase = "loss_done"
    /\ fwd.length = ExampleLength
    /\ fwd.pipe_loss.n = 8
    /\ fwd.pipe_loss.sum > 0

\* the partitions of ranks 0 .. w - 1, one after the other
RECURSIVE Concat(_, _)
Concat(parts, w) == IF w = 0 THEN <<>> ELSE Concat(parts, w - 1) \o parts[w - 1]

\* C12: for W <= N the stage list is split in W non-empty partitions whose
\* concatenation in rank order is the stage list (so they are contiguous and
\* do not overlap); for W > N partitioning fails; RNNModel.layers has N = 4.
C12_PartitionsCoverStages ==
    /\ Len(layers) = 4
    /\ pipeline_parts.phase = "built" =>
          LET res == pipeline_parts.result
              w == pipeline_parts.world
              n == Len(pipeline_parts.stages)
          IN /\ res.ok <=> w <= n
             /\ res.ok =>
                   /\ DOMAIN res.parts = 0 .. (w - 1)
                   /\ \A r \in 0 .. (w - 1) : Len(res.parts[r]) >= 1
                   /\ Concat(res.parts, w) = pipeline_parts.stages

C12_Witness ==
    /\ pipeline_parts.phase = "built"
    /\ pipeline_parts.stages = layers
    /\ pipeline_parts.world = 3
    /\ pipeline_parts.result.ok
    /\ pipeline_parts.result.parts[2] = <<"proj", "Layer2">>

\* C9: the validation perplexity of an epoch is computed and reported at most
\* once, by the terminal rank, and exactly once when a rank is past the
\* broadcast of that epoch.
C9_ValidationOncePerEpoch ==
    /\ \A e \in 1 .. epochs :
          /\ Len(val_log[e]) <= 1
          /\ \A i \in 1 .. Len(val_log[e]) : val_log[e][i].rank = world_size - 1
    /\ \A r \in Ranks :
          /\ pc[r] = "promote" => Len(val_log[epoch[r]]) = 1
          /\ \A e \in Passed(r) : Len(val_log[e]) = 1

C9_Witness ==
    /\ \A r \in Ranks : Len(promoted[r]) = 2
    /\ \A e \in 1 .. 2 : Len(val_log[e]) = 1

\* C10: epochs run in order up to args.epochs, the loop ends earlier only on
\* KeyboardInterrupt, and the ranks never block one another for ever: as long
\* as a rank has not ended, some rank can take a step.
C10_LoopTerminates ==
    /\ \A r \in Ranks : epoch[r] <= epochs
    /\ \A r \in Ranks :
          (pc[r] \in {"test", "done"} /\ r \notin interrupted) => epoch[r] = epochs
    /\ (\A r \in Ranks : pc[r] \in {"done", "failed"}) \/ ENABLED NextRun

\* a is an initial part of b
Prefix(a, b) == Len(a) <= Len(b) /\ a = SubSeq(b, 1, Len(a))

\* the steps of one epoch on rank r, in order, up to the broadcast
EpochOrder(r) ==
    IF r = world_size - 1
    THEN <<"train", "barrier", "save", "evaluate", "broadcast">>
    ELSE <<"train", "barrier", "save", "broadcast">>

\* C13: on every rank the steps of an epoch are TRAIN, BARRIER, the raw save,
\* EVALUATE on the terminal rank only, BROADCAST, then maybe the promotion
\* (CHECKPOINT): the save precedes the evaluation, the evaluation precedes the
\* broadcast, and the promotion follows the completed broadcast of the epoch.
C13_EpochStepOrder ==
    \A r \in Ranks :
       /\ \/ Prefix(trace[r], EpochOrder(r))
          \/ trace[r] = EpochOrder(r) \o <<"checkpoint">>
       /\ pc[r] = "eval" => r = world_size - 1 /\ trace[r] = <<"train", "barrier", "save">>
       /\ pc[r] = "promote" =>
             /\ trace[r] = EpochOrder(r)
             /\ bcast[epoch[r]] # None
             /\ val_ppl[r] = bcast[epoch[r]]
       /\ (trace[r] # <<>> /\ trace[r][Len(trace[r])] = "checkpoint") =>
             /\ bestFile[r].ep = epoch[r]
             /\ best_val_ppl[r] = bcast[epoch[r]]

C13_Witness ==
    /\ epoch[world_size - 1] = 2
    /\ trace[world_size - 1] = EpochOrder(world_size - 1) \o <<"checkpoint">>
    /\ \E r \in Ranks : r # world_size - 1 /\ epoch[r] = 2 /\ trace[r] = EpochOrder(r)
                        /\ pc[r] = "promote"

\* the statements of one iteration of the batch loop on rank r, in order
BatchOrder(r) ==
    IF r = world_size - 1
    THEN <<"call", "clip", "step", "zero_grad", "read_loss">>
    ELSE <<"call", "clip", "step", "zero_grad">>

\* C14: for every micro-batch every rank clips once, then steps once, then
\* resets the gradients once, after its pipeline call has returned; only rank
\* world_size - 1 reads the returned loss.
C14_ClipStepResetPerBatch ==
    \A r \in Ranks :
       /\ Prefix(ops[r], BatchOrder(r))
       /\ pc[r] \in {"call", "incall"} => ops[r] = <<>>
       /\ pc[r] = "clip" => ops[r] = <<"call">>
       /\ pc[r] = "step" => ops[r] = <<"call", "clip">>
       /\ pc[r] = "zero" => ops[r] = <<"call", "clip", "step">>
       /\ pc[r] = "accum" => ops[r] = <<"call", "clip", "step", "zero_grad">>
       /\ (pc[r] = "batch_for" /\ num_batch[r] > 0) => ops[r] = BatchOrder(r)
       /\ r # world_size - 1 => loss[r] = None /\ total_loss[r] = ZeroLoss

C14_Witness ==
    /\ \A r \in Ranks : pc[r] = "batch_for" /\ num_batch[r] = NumBatches
                        /\ ops[r] = BatchOrder(r)
    /\ loss[world_size - 1] = Num(1)
    /\ \E r \in Ranks : r # world_size - 1 /\ loss[r] = None

\* C15: the pipeline call of a micro-batch gets the real input if and only if
\* the rank is 0 (None otherwise) and the extra outputs (target, length) if and
\* only if the rank is world_size - 1 (nothing otherwise); with world_size = 1
\* the single rank gets both.
C15_CallArguments ==
    /\ \A r \in Ranks :
          pc[r] \in {"call", "incall", "clip", "step", "zero", "accum"} =>
             /\ call_args[r].input = "data" <=> r = 0
             /\ call_args[r].input = "None" <=> r # 0
             /\ call_args[r].extra = <<"target", "length">> <=> r = world_size - 1
             /\ call_args[r].extra = <<>> <=> r # world_size - 1
    /\ real_input(0) = "data"
    /\ real_extra_output(0, 1) = <<"target", "length">>

C15_Witness ==
    /\ \A r \in Ranks : pc[r] = "incall"
    /\ call_args[0] = [input |-> "data", extra |-> <<>>]
    /\ call_args[world_size - 1] = [input |-> "None", extra |-> <<"target", "length">>]

\* the batch indices of the reports of rank r, in the order they were logged
ReportBatches(r) == [i \in DOMAIN reports[r] |-> reports[r][i].batch]

\* the batch indices below n that are positive multiples of the interval
LogPoints(n, interval) == {k \in 1 .. (n - 1) : k % interval = 0}

\* C16: only the terminal rank accumulates a loss or reports progress, and it
\* reports once at each batch index that is a positive multiple of log_interval.
C16_ProgressOnTerminalRank ==
    \A r \in Ranks :
       IF r = world_size - 1
       THEN /\ {reports[r][i].batch : i \in DOMAIN reports[r]} =
                  LogPoints(num_batch[r], log_interval)
            /\ \A i, j \in DOMAIN reports[r] :
                  i < j => reports[r][i].batch < reports[r][j].batch
       ELSE /\ reports[r] = <<>>
            /\ total_loss[r] = ZeroLoss

C16_Witness ==
    /\ ~prof
    /\ num_batch[world_size - 1] = NumBatches
    /\ Len(reports[world_size - 1]) = NumBatches - 1
    /\ reports[world_size - 1][1].batch = log_interval
    /\ \E r \in Ranks : r # world_size - 1 /\ num_batch[r] = NumBatches
                        /\ reports[r] = <<>>

\* C18: every progress report shows the arithmetic mean of the losses
\* accumulated since the previous report or the start of the epoch (the total
\* divided by the number of losses it holds), and the accumulator is zero
\* after each report.
C18_ReportShowsMean ==
    \A r \in Ranks :
       /\ \A i \in DOMAIN reports[r] :
             LET rep == reports[r][i] IN
             ~rep.nan => rep.n > 0 /\ rep.total * rep.n = rep.total * rep.div
       /\ (pc[r] = "batch_for" /\ reports[r] # <<>>
           /\ reports[r][Len(reports[r])].batch = num_batch[r] - 1) =>
             total_loss[r] = ZeroLoss

\* the positions of run_epoch after the batch loop of train
AfterLoop == {"barrier", "inbarrier", "save", "eval", "bcast", "promote"}

\* C17: in every epoch and configuration, args.prof included, all ranks issue
\* the same number of pipeline calls before leaving the batch loop: no rank is
\* past the loop while a peer in the same epoch waits in a pipeline call the
\* rank has not entered.
C17_SameCallsBeforeBarrier ==
    \A r, q \in Ranks :
       (pc[r] \in AfterLoop /\ epoch[q] = epoch[r] /\ pc[q] = "incall") =>
          ncalls[q] <= ncalls[r]

====
